---- MODULE Spec2Model ----
(***************************************************************************)
(* Dead-code elimination pass (src/passes/DeadCode.cpp): the mark / sweep / *)
(* prune fixpoint DeadCode::run over a module of the SSA IR.               *)
(*                                                                         *)
(* An instruction is an index in Instrs; a Value (operand) is a string:    *)
(* the name of an instruction ("%1"), of a function ("main", "g", "ext"),  *)
(* a constant "c" or a block label "bb".  dynamic_cast<Instruction *> and  *)
(* dynamic_cast<Function *> are AsInstr and IsFunction.                    *)
(***************************************************************************)
EXTENDS Integers, Sequences, FiniteSets, TLC

\* ------------------------------------------------------------------ bounds
NumInstr == 3
MaxRuns == 2
NumHelpers == 2
MaxSweeps == 3

\* ------------------------------------------------------- the IR's universe
Instrs == 1..NumInstr
InstrNames == <<"%1", "%2", "%3", "%4", "%5", "%6">>
Name(i) == InstrNames[i]
InstrValues == {Name(i) : i \in Instrs}
Funcs == <<"main", "ext", "g">>
FuncSet == {Funcs[k] : k \in 1..Len(Funcs)}
BlockOrder == <<"B1", "B2", "B3">>
Blocks == {BlockOrder[k] : k \in 1..Len(BlockOrder)}
Values == InstrValues \cup FuncSet \cup {"c", "bb"}

Range(s) == {s[k] : k \in 1..Len(s)}

RECURSIVE Concat(_)
Concat(ss) == IF ss = <<>> THEN <<>> ELSE Head(ss) \o Concat(Tail(ss))

\* dynamic_cast<Instruction *>(operand): the instruction, or 0 for nullptr
AsInstr(v) == IF v \in InstrValues THEN CHOOSE i \in Instrs : Name(i) = v ELSE 0
\* dynamic_cast<Function *>(func_val) != nullptr
IsFunction(v) == v \in FuncSet
\* Function::is_declaration
IsDeclaration(f) == f = "ext"

VARIABLES
    kind,          \* instruction -> kind tag
    operands,      \* instruction -> sequence of operand Values
    use_list,      \* Value -> set of instructions that use it
    insts,         \* block -> instruction list of the block
    basic_blocks,  \* function -> block list of the function
    preds,         \* block -> set of predecessor blocks
    pure,          \* purity oracle: function -> BOOLEAN
    marked,        \* DeadCode::marked, as the set of keys mapped to true
    wait_del,      \* removal batch of the last sweep
    changed,       \* run's local flag
    ins_count,     \* DeadCode::ins_count
    pc,            \* position in DeadCode::run
    fi,            \* index of the function the for loop of run is at
    runNo,         \* which invocation of run this is
    iter,          \* loop bodies executed by this invocation
    sizeAtDo,      \* instructions + blocks at the start of this loop body
    insts0,        \* block lists when this invocation of run began
    operands0,     \* operand lists when this invocation of run began
    blocks0,       \* function block lists when this invocation of run began
    functions,     \* Module::get_functions: the functions in the module
    global_variable, \* Module::get_global_variable: the globals in the module
    sweeps         \* calls of sweep_globally made so far

vars == <<kind, operands, use_list, insts, basic_blocks, preds, pure, marked,
          wait_del, changed, ins_count, pc, fi, runNo, iter, sizeAtDo,
          insts0, operands0, blocks0, functions, global_variable, sweeps>>

\* ----------------------------------------------------------- IR queries
\* Instruction::isTerminator
IsTerminator(i) == kind[i] \in {"ret", "br"}
\* BasicBlock::is_terminated on an instruction list
IsTerminatedList(l) == l # <<>> /\ kind[l[Len(l)]] \in {"ret", "br"}
IsTerminated(b) == IsTerminatedList(insts[b])
\* Function::get_entry_block
EntryBlock(f) == Head(basic_blocks[f])
\* the instructions of a function, in block order
InstrSeqOf(bl, il) == Concat([k \in 1..Len(bl) |-> il[bl[k]]])
FuncInstrs(f) == InstrSeqOf(basic_blocks[f], insts)
\* every instruction that sits in a block of the module
LiveIn(bbs, il) == UNION {Range(il[b]) : b \in UNION {Range(bbs[f]) : f \in FuncSet}}
Live == LiveIn(basic_blocks, insts)
BlocksIn(bbs) == UNION {Range(bbs[f]) : f \in FuncSet}
Size == Cardinality(Live) + Cardinality(BlocksIn(basic_blocks))
MaxIter == NumInstr + Len(BlockOrder) + 1

\* --------------------------------------------------------- is_critical
IsCritical_noDecl(i) ==
    IF kind[i] = "ret" THEN TRUE
    ELSE IF kind[i] = "br" THEN TRUE
    ELSE IF kind[i] = "store" THEN TRUE
    ELSE IF /\ kind[i] = "call"
            /\ IsFunction(operands[i][1])
            /\ ~pure[operands[i][1]] THEN TRUE
    ELSE use_list[Name(i)] # {}

IsCritical_anyCall(i) ==
    IF kind[i] = "ret" THEN TRUE
    ELSE IF kind[i] = "br" THEN TRUE
    ELSE IF kind[i] = "store" THEN TRUE
    ELSE IF kind[i] = "call" /\ IsFunction(operands[i][1]) THEN TRUE
    ELSE use_list[Name(i)] # {}

IsCritical_noUses(i) ==
    IF kind[i] = "ret" THEN TRUE
    ELSE IF kind[i] = "br" THEN TRUE
    ELSE IF kind[i] = "store" THEN TRUE
    ELSE IF /\ kind[i] = "call"
            /\ IsFunction(operands[i][1])
            /\ (IsDeclaration(operands[i][1]) \/ ~pure[operands[i][1]]) THEN TRUE
    ELSE FALSE

IsCritical(i) ==
    IF kind[i] = "ret" THEN TRUE
    ELSE IF kind[i] = "br" THEN TRUE
    ELSE IF kind[i] = "store" THEN TRUE
    ELSE IF /\ kind[i] = "call"
            /\ IsFunction(operands[i][1])
            /\ (IsDeclaration(operands[i][1]) \/ ~pure[operands[i][1]]) THEN TRUE
    ELSE use_list[Name(i)] # {}

\* ---------------------------------------------------------------- mark
\* the instruction operands of ins that are not yet marked, in operand order
UnmarkedOperands_none(ins, m) == <<>>

UnmarkedOperands(ins, m) ==
    LET ops == operands[ins]
        asI == [k \in 1..Len(ops) |-> AsInstr(ops[k])]
    IN SelectSeq(asI, LAMBDA j : j # 0 /\ j \notin m)

\* the worklist loop of mark(Function *)
RECURSIVE MarkLoop(_, _)
MarkLoop(work_list, m) ==
    IF work_list = <<>> THEN m
    ELSE LET ins == Head(work_list)
             rest == Tail(work_list)
         IN IF ins \in m THEN MarkLoop(rest, m)
            ELSE MarkLoop(rest \o UnmarkedOperands(ins, m \cup {ins}), m \cup {ins})

\* the seeding loop of mark(Function *)
Seeds_entryOnly(f) ==
    SelectSeq(insts[EntryBlock(f)], LAMBDA i : IsCritical(i))

Seeds(f) == SelectSeq(FuncInstrs(f), LAMBDA i : IsCritical(i))

MarkFunc_noClear(f) == MarkLoop(Seeds(f), marked)

MarkFunc(f) == MarkLoop(Seeds(f), {})

\* --------------------------------------------------------------- sweep
\* the batch of one block
BlockBatch_anyBlock(b) ==
    IF insts[b] = <<>> THEN <<>>
    ELSE SelectSeq(insts[b], LAMBDA i : ~IsTerminator(i) /\ i \notin marked)

BlockBatch(b) ==
    IF insts[b] = <<>> THEN <<>>
    ELSE IF ~IsTerminated(b) THEN <<>>
    ELSE SelectSeq(insts[b], LAMBDA i : ~IsTerminator(i) /\ i \notin marked)

WaitDel(f) ==
    Concat([k \in 1..Len(basic_blocks[f]) |-> BlockBatch(basic_blocks[f][k])])

\* Instruction::remove_all_operands on st = [operands, use_list, insts, ins_count]
RemoveAllOperands(st, i) ==
    [st EXCEPT
       !.use_list = [v \in DOMAIN st.use_list |->
                        IF v \in Range(st.operands[i])
                        THEN st.use_list[v] \ {i} ELSE st.use_list[v]],
       !.operands = [st.operands EXCEPT ![i] = <<>>]]

\* BasicBlock::erase_instr of the instruction's parent block
EraseInstr(st, i) ==
    [st EXCEPT !.insts = [b \in DOMAIN st.insts |->
                             SelectSeq(st.insts[b], LAMBDA x : x # i)]]

\* one round of the deletion loop of sweep
EraseStep_noDetach(st, i) ==
    IF IsTerminator(i) THEN st
    ELSE [EraseInstr(st, i) EXCEPT !.ins_count = @ + 1]

EraseStep_noCount(st, i) ==
    IF IsTerminator(i) THEN st
    ELSE EraseInstr(RemoveAllOperands(st, i), i)

EraseStep(st, i) ==
    IF IsTerminator(i) THEN st
    ELSE [EraseInstr(RemoveAllOperands(st, i), i) EXCEPT !.ins_count = @ + 1]

RECURSIVE SweepErase(_, _)
SweepErase(st, wd) ==
    IF wd = <<>> THEN st ELSE SweepErase(EraseStep(st, Head(wd)), Tail(wd))

\* the value sweep returns
SweepChanged_never(wd) == FALSE
SweepChanged_always(wd) == TRUE
SweepChanged(wd) == wd # <<>>

\* ------------------------------------------------- clear_basic_blocks
ToErase_nonEmpty(f) ==
    SelectSeq(basic_blocks[f],
              LAMBDA b : preds[b] = {} /\ b # EntryBlock(f))

ToErase_unterminated(f) ==
    SelectSeq(basic_blocks[f],
              LAMBDA b : /\ preds[b] = {} /\ b # EntryBlock(f)
                         /\ (insts[b] = <<>> \/ ~IsTerminated(b)))

ToErase_anyPreds(f) ==
    SelectSeq(basic_blocks[f],
              LAMBDA b : b # EntryBlock(f) /\ insts[b] = <<>>)

ToErase_entryToo(f) ==
    SelectSeq(basic_blocks[f], LAMBDA b : preds[b] = {} /\ insts[b] = <<>>)

ToErase(f) ==
    SelectSeq(basic_blocks[f],
              LAMBDA b : preds[b] = {} /\ b # EntryBlock(f) /\ insts[b] = <<>>)

\* ---------------------------------------------------------------- Init
\* The modules the pass is run on.  Instruction i may use the instruction
\* before it or (a phi) the one after it; a call has its callee as operand 0.
PrevVal(i) == IF i > 1 THEN {Name(i - 1)} ELSE {}
NextVal(i) == IF i < NumInstr THEN {Name(i + 1)} ELSE {}
ShapesAt(i) ==
         {[kind |-> "ret", ops |-> <<>>]}
    \cup {[kind |-> "ret", ops |-> <<v>>] : v \in PrevVal(i)}
    \cup {[kind |-> "br", ops |-> <<"bb">>]}
    \cup {[kind |-> "store", ops |-> <<v, "c">>] : v \in {"c"} \cup PrevVal(i)}
    \cup {[kind |-> "add", ops |-> <<v, "c">>] : v \in {"c"} \cup PrevVal(i)}
    \cup {[kind |-> "phi", ops |-> <<v, "c">>] : v \in NextVal(i)}
    \cup {[kind |-> "call", ops |-> <<f>>] : f \in {"ext", "g", "c"}}
AllShapes == UNION {ShapesAt(i) : i \in Instrs}

\* the function that owns a block, as the module is built
OwnerOf(b) == IF b = "B3" THEN "g" ELSE "main"
\* instructions are laid out in index order over B1, B2, B3
Layouts == {pl \in [Instrs -> 1..Len(BlockOrder)] :
               \A i \in Instrs : i > 1 => pl[i - 1] <= pl[i]}

\* an operand that is an instruction is the result of an add, a phi or a call
ShapesOk(sh) ==
    \A i \in Instrs :
       /\ sh[i] \in ShapesAt(i)
       /\ \A k \in 1..Len(sh[i].ops) :
             LET j == AsInstr(sh[i].ops[k])
             IN j # 0 => sh[j].kind \in {"add", "phi", "call"}

\* an operand that is an instruction is a value of the same function, and a
\* return or branch is the last instruction of its block (a malformed block is
\* one that lacks its terminator)
LayoutOk(sh, pl) ==
    /\ \A i \in Instrs : \A k \in 1..Len(sh[i].ops) :
          LET j == AsInstr(sh[i].ops[k])
          IN j # 0 => OwnerOf(BlockOrder[pl[j]]) = OwnerOf(BlockOrder[pl[i]])
    /\ \A i \in Instrs :
          (i < NumInstr /\ pl[i + 1] = pl[i]) => sh[i].kind \notin {"ret", "br"}

IndexSeq(S) == SelectSeq([k \in 1..NumInstr |-> k], LAMBDA i : i \in S)

\* The modules the pass is run on.  InitWith(quiet) is the family in which
\* any of the instructions of quiet that have an instruction operand may be
\* missing from the use-lists of their operands; the pass itself starts from
\* complete use-lists.
InitWith(quiet) ==
    \E sh \in [Instrs -> AllShapes] :
    /\ ShapesOk(sh)
    /\ \E silent \in SUBSET {i \in quiet :
                              \E k \in 1..Len(sh[i].ops) : AsInstr(sh[i].ops[k]) # 0} :
          use_list = [v \in Values |->
                        {i \in Instrs \ silent : v \in Range(sh[i].ops)}]
    /\ \E pl \in Layouts :
       /\ LayoutOk(sh, pl)
       /\ insts = [b \in Blocks |->
                     IndexSeq({i \in Instrs : BlockOrder[pl[i]] = b})]
    \* the oracle's answer for a function nobody calls is never read
    /\ \E pg \in {FALSE} \cup {x \in {TRUE} : \E i \in Instrs : sh[i].ops = <<"g">>},
          pe \in {FALSE} \cup {x \in {TRUE} : \E i \in Instrs : sh[i].ops = <<"ext">>} :
          pure = [f \in FuncSet |->
                    IF f = "g" THEN pg ELSE IF f = "ext" THEN pe ELSE FALSE]
    \* only clear_basic_blocks reads a predecessor set, and what it does with a
    \* non-empty block does not depend on it: B2 has its predecessor or not when
    \* it is empty, and has none when it holds instructions
    /\ \E hasPred \in {FALSE} \cup {x \in {TRUE} : insts["B2"] = <<>>} :
          preds = [b \in Blocks |-> IF b = "B2" /\ hasPred THEN {"B1"} ELSE {}]
    /\ kind = [i \in Instrs |-> sh[i].kind]
    /\ operands = [i \in Instrs |-> sh[i].ops]
    /\ basic_blocks = [f \in FuncSet |->
                         IF f = "main" THEN <<"B1", "B2">>
                         ELSE IF f = "g" THEN <<"B3">> ELSE <<>>]
    /\ marked = {}
    /\ wait_del = <<>>
    /\ changed = FALSE
    /\ ins_count = 0
    /\ pc = "do"
    /\ fi = 1
    /\ runNo = 1
    /\ iter = 0
    /\ sizeAtDo = 0
    /\ insts0 = insts
    /\ operands0 = operands
    /\ blocks0 = basic_blocks
    /\ functions = Funcs
    /\ global_variable = <<>>
    /\ sweeps = 0

Init == InitWith({})

\* ------------------------------------------------------- DeadCode::run
static == <<kind, preds, pure, functions, global_variable, sweeps>>
before == <<insts0, operands0, blocks0>>
ir == <<operands, use_list, insts, basic_blocks>>

\* do { changed = false; for (auto &F : m_->get_functions()) ...
DoBegin ==
    /\ pc = "do"
    /\ iter < MaxIter
    /\ changed' = FALSE
    /\ fi' = 1
    /\ iter' = iter + 1
    /\ sizeAtDo' = Size
    /\ pc' = "for"
    /\ UNCHANGED <<static, ir, marked, wait_del, ins_count, runNo, before>>

\* if (func->is_declaration()) continue;
SkipDeclaration ==
    /\ pc = "for"
    /\ fi <= Len(Funcs)
    /\ IsDeclaration(Funcs[fi])
    /\ fi' = fi + 1
    /\ UNCHANGED <<static, ir, marked, wait_del, changed, ins_count, pc, runNo,
                   iter, sizeAtDo, before>>

\* mark(func);
Mark ==
    /\ pc = "for"
    /\ fi <= Len(Funcs)
    /\ ~IsDeclaration(Funcs[fi])
    /\ marked' = MarkFunc(Funcs[fi])
    /\ pc' = "sweep"
    /\ UNCHANGED <<static, ir, wait_del, changed, ins_count, fi, runNo, iter,
                   sizeAtDo, before>>

\* changed |= sweep(func);
Sweep ==
    /\ pc = "sweep"
    /\ LET wd == WaitDel(Funcs[fi])
           st == SweepErase([operands |-> operands, use_list |-> use_list,
                             insts |-> insts, ins_count |-> ins_count], wd)
       IN /\ wait_del' = wd
          /\ operands' = st.operands
          /\ use_list' = st.use_list
          /\ insts' = st.insts
          /\ ins_count' = st.ins_count
          /\ changed' = (changed \/ SweepChanged(wd))
    /\ pc' = "prune"
    /\ UNCHANGED <<static, basic_blocks, marked, fi, runNo, iter, sizeAtDo,
                   before>>

\* changed |= clear_basic_blocks(func);
ClearBasicBlocks ==
    /\ pc = "prune"
    /\ LET f == Funcs[fi]
           to_erase == ToErase(f)
       IN /\ basic_blocks' = [basic_blocks EXCEPT ![f] =
                 SelectSeq(@, LAMBDA b : b \notin Range(to_erase))]
          /\ changed' = (changed \/ to_erase # <<>>)
    /\ fi' = fi + 1
    /\ pc' = "for"
    /\ UNCHANGED <<static, operands, use_list, insts, marked, wait_del, ins_count,
                   runNo, iter, sizeAtDo, before>>

\* } while (changed);
While_once ==
    /\ pc = "for"
    /\ fi > Len(Funcs)
    /\ pc' = "done"
    /\ UNCHANGED <<static, ir, marked, wait_del, changed, ins_count, fi, runNo,
                   iter, sizeAtDo, before>>

While ==
    /\ pc = "for"
    /\ fi > Len(Funcs)
    /\ pc' = IF changed THEN "do" ELSE "done"
    /\ UNCHANGED <<static, ir, marked, wait_del, changed, ins_count, fi, runNo,
                   iter, sizeAtDo, before>>

\* the pass is run again on its own output
RunAgain ==
    /\ pc = "done"
    /\ runNo < MaxRuns
    /\ runNo' = runNo + 1
    /\ iter' = 0
    /\ insts0' = insts
    /\ operands0' = operands
    /\ blocks0' = basic_blocks
    /\ pc' = "do"
    /\ UNCHANGED <<static, ir, marked, wait_del, changed, ins_count, fi, sizeAtDo>>

\* one invocation of DeadCode::run
Next ==
    \/ DoBegin
    \/ SkipDeclaration
    \/ Mark
    \/ Sweep
    \/ ClearBasicBlocks
    \/ While

Spec == Init /\ [][Next]_vars

\* DeadCode::run invoked again on the module it produced
NextAgain ==
    \/ DoBegin
    \/ SkipDeclaration
    \/ Mark
    \/ Sweep
    \/ ClearBasicBlocks
    \/ While
    \/ RunAgain

SpecAgain == Init /\ [][NextAgain]_vars

\* ------------------------------------------------ the two markers
\* mark(Function *) and mark(Instruction *) read the operands, and is_critical
\* reads the use-lists; neither relies on the two agreeing.  The markers are
\* applied to every module of the family, with use-lists in which any set of
\* the instructions that have an instruction operand is missing.
InitMark ==
    /\ InitWith(Instrs)
    /\ preds["B2"] = {}

\* mark(Instruction *)
MarkRec_shallow(ins, m) == m \cup {ins}

RECURSIVE MarkRec(_, _), MarkRecOperands(_, _)
MarkRec(ins, m) ==
    IF ins \in m THEN m ELSE MarkRecOperands(operands[ins], m \cup {ins})
\* its loop over the operands
MarkRecOperands(ops, m) ==
    IF ops = <<>> THEN m
    ELSE LET operand_ins == AsInstr(Head(ops))
         IN MarkRecOperands(Tail(ops),
                            IF operand_ins # 0 THEN MarkRec(operand_ins, m) ELSE m)

\* the recursive marker applied to every critical instruction of a function,
\* from an empty marked set
RECURSIVE MarkRecAll(_, _)
MarkRecAll(seeds, m) ==
    IF seeds = <<>> THEN m ELSE MarkRecAll(Tail(seeds), MarkRec(Head(seeds), m))
MarkRecFunc(f) == MarkRecAll(Seeds(f), {})

MarkWorklist ==
    /\ pc = "do"
    /\ \E k \in 1..Len(Funcs) :
          /\ ~IsDeclaration(Funcs[k])
          /\ fi' = k
          /\ marked' = MarkFunc(Funcs[k])
    /\ pc' = "worklist"
    /\ UNCHANGED <<static, ir, wait_del, changed, ins_count, runNo, iter,
                   sizeAtDo, before>>

MarkRecursive ==
    /\ pc = "do"
    /\ \E k \in 1..Len(Funcs) :
          /\ ~IsDeclaration(Funcs[k])
          /\ fi' = k
          /\ marked' = MarkRecFunc(Funcs[k])
    /\ pc' = "recursive"
    /\ UNCHANGED <<static, ir, wait_del, changed, ins_count, runNo, iter,
                   sizeAtDo, before>>

NextMark == MarkWorklist \/ MarkRecursive

SpecMark == InitMark /\ [][NextMark]_vars

\* ------------------------------------------- DeadCode::sweep_globally
\* The modules the global collector is run on: main and NumHelpers helper
\* functions, two globals.  Function k has one block; it holds a call (to any
\* function of the module, itself included) or none, and a load of a global
\* or none.  Instruction 2k-1 is the call of function k, 2k its load.
HelperNames == <<"f1", "f2", "f3", "f4">>
GFuncs == <<"main">> \o SubSeq(HelperNames, 1, NumHelpers)
GFuncSet == Range(GFuncs)
GGlobals == <<"@x", "@y">>
GBlockNames == <<"b0", "b1", "b2", "b3", "b4">>
GInstrs == 1..(2 * Len(GFuncs))
GValues == GFuncSet \cup Range(GGlobals)
GBody(k, callee, glob) ==
    (IF callee[k] = "none" THEN <<>> ELSE <<2 * k - 1>>)
       \o (IF glob[k] = "none" THEN <<>> ELSE <<2 * k>>)

InitGlobal ==
    \E callee \in [1..Len(GFuncs) -> {"none"} \cup GFuncSet],
       glob \in [1..Len(GFuncs) -> {"none"} \cup Range(GGlobals)] :
    /\ kind = [i \in GInstrs |-> IF i % 2 = 1 THEN "call" ELSE "load"]
    /\ operands = [i \in GInstrs |->
                     LET k == (i + 1) \div 2
                         v == IF i % 2 = 1 THEN callee[k] ELSE glob[k]
                     IN IF v = "none" THEN <<>> ELSE <<v>>]
    /\ use_list = [v \in GValues |-> {i \in GInstrs : operands[i] = <<v>>}]
    /\ insts = [b \in {GBlockNames[k] : k \in 1..Len(GFuncs)} |->
                  LET k == CHOOSE n \in 1..Len(GFuncs) : GBlockNames[n] = b
                  IN GBody(k, callee, glob)]
    /\ basic_blocks = [f \in GFuncSet |->
                         LET k == CHOOSE n \in 1..Len(GFuncs) : GFuncs[n] = f
                         IN <<GBlockNames[k]>>]
    /\ preds = [b \in {GBlockNames[k] : k \in 1..Len(GFuncs)} |-> {}]
    /\ pure = [f \in GFuncSet |-> FALSE]
    /\ functions = GFuncs
    /\ global_variable = GGlobals
    /\ sweeps = 0
    /\ marked = {}
    /\ wait_del = <<>>
    /\ changed = FALSE
    /\ ins_count = 0
    /\ pc = "global"
    /\ fi = 1
    /\ runNo = 1
    /\ iter = 0
    /\ sizeAtDo = 0
    /\ insts0 = insts
    /\ operands0 = operands
    /\ blocks0 = basic_blocks

\* the first loop of sweep_globally
UnusedFuncs_noMain ==
    SelectSeq(functions, LAMBDA f : use_list[f] = {})

\* functions that are unused once the functions collected so far are gone
RECURSIVE ChaseUnused(_)
ChaseUnused(S) ==
    LET T == S \cup {f \in Range(functions) \ {"main"} :
                       \A i \in use_list[f] :
                          \E h \in S : \E k \in 1..Len(basic_blocks[h]) :
                             i \in Range(insts[basic_blocks[h][k]])}
    IN IF T = S THEN S ELSE ChaseUnused(T)
UnusedFuncs_chase ==
    SelectSeq(functions, LAMBDA f : f \in ChaseUnused({}))

UnusedFuncs ==
    SelectSeq(functions, LAMBDA f : use_list[f] = {} /\ f # "main")

\* the second loop of sweep_globally
UnusedGlobals ==
    SelectSeq(global_variable, LAMBDA g : use_list[g] = {})

\* a function erased from the module is destroyed with its blocks and their
\* instructions, and a destroyed instruction leaves the use-lists of its
\* operands
RECURSIVE DetachAll(_, _)
DetachAll(st, is) ==
    IF is = <<>> THEN st ELSE DetachAll(RemoveAllOperands(st, Head(is)), Tail(is))
DestroyFunctions(fs) ==
    DetachAll([operands |-> operands, use_list |-> use_list],
              Concat([k \in 1..Len(fs) |-> FuncInstrs(fs[k])]))

SweepGlobally ==
    /\ pc = "global"
    /\ sweeps < MaxSweeps
    /\ LET unused_funcs == UnusedFuncs
           unused_globals == UnusedGlobals
           st == DestroyFunctions(unused_funcs)
           dead == UNION {Range(basic_blocks[f]) : f \in Range(unused_funcs)}
       IN /\ functions' = SelectSeq(functions, LAMBDA f : f \notin Range(unused_funcs))
          /\ global_variable' =
                SelectSeq(global_variable, LAMBDA g : g \notin Range(unused_globals))
          /\ operands' = st.operands
          /\ use_list' = st.use_list
          /\ insts' = [b \in DOMAIN insts |-> IF b \in dead THEN <<>> ELSE insts[b]]
          /\ basic_blocks' = [f \in DOMAIN basic_blocks |->
                                IF f \in Range(unused_funcs) THEN <<>>
                                ELSE basic_blocks[f]]
    /\ sweeps' = sweeps + 1
    /\ UNCHANGED <<kind, preds, pure, marked, wait_del, changed, ins_count, pc, fi,
                   runNo, iter, sizeAtDo, before>>

\* the pass pipeline calls the global collector, again and again
NextGlobal == SweepGlobally

SpecGlobal == InitGlobal /\ [][NextGlobal]_vars

\* ============================================================ properties
\* the block an instruction was in before the pass
Block0Of(i) == CHOOSE b \in Blocks : i \in Range(insts0[b])
\* the block an instruction is in now (Instruction::get_parent)
ParentOf(i) == CHOOSE b \in Blocks : i \in Range(insts[b])
\* the operands of i that are instructions
OperandInstrs(i) == {AsInstr(operands[i][k]) : k \in 1..Len(operands[i])} \ {0}
\* everything reachable from S through operand edges
RECURSIVE Reach(_)
Reach(S) ==
    LET T == S \cup UNION {OperandInstrs(i) : i \in S}
    IN IF T = S THEN S ELSE Reach(T)
CriticalSet == {i \in Live : IsCritical(i)}
WasTerminated(b) == IsTerminatedList(insts0[b])
WasMalformed(b) == insts0[b] # <<>> /\ ~IsTerminatedList(insts0[b])
InitialSize == Cardinality(LiveIn(blocks0, insts0)) + Cardinality(BlocksIn(blocks0))
AtWhile == pc = "for" /\ fi > Len(Funcs)

\* C1 - use-list consistency: in every state of run, no instruction that is
\* still in a block has a deleted instruction as an operand, and the use-list
\* of every surviving value (a constant, a function, a block, an instruction
\* still in a block) holds no deleted instruction.
UseListConsistency ==
    LET live == Live
    IN /\ \A i \in live : OperandInstrs(i) \subseteq live
       /\ \A v \in Values :
             (v \in InstrValues => AsInstr(v) \in live) => use_list[v] \subseteq live

\* a sweep has just deleted an instruction one of whose operands is an
\* instruction that survives
UseListWitness ==
    /\ pc = "prune"
    /\ \E i \in Range(wait_del) :
          \E k \in 1..Len(operands0[i]) : AsInstr(operands0[i][k]) \in Live

\* C2 - terminator preservation: no return or branch ever leaves its block,
\* and a block that ended with a terminator before run is still in its
\* function and still ends with that same instruction.
TerminatorPreservation ==
    /\ \A i \in Instrs :
          IsTerminator(i) => /\ i \in Range(insts[Block0Of(i)])
                             /\ Block0Of(i) \in BlocksIn(basic_blocks)
    /\ \A b \in Blocks :
          WasTerminated(b) =>
             /\ b \in BlocksIn(basic_blocks)
             /\ insts[b] # <<>>
             /\ insts[b][Len(insts[b])] = insts0[b][Len(insts0[b])]

\* run has ended after sweeping instructions out of a terminated block
\* that nothing leads to
TerminatorWitness ==
    /\ pc = "done"
    /\ \E b \in Blocks : /\ WasTerminated(b)
                         /\ Len(insts[b]) < Len(insts0[b])
                         /\ preds[b] = {} /\ b # "B1"

\* C3 as stated - soundness over every remaining instruction: when run has
\* ended, every instruction still in a block is critical or reachable
\* through operand edges from a critical one.
SoundnessEveryInstruction ==
    pc = "done" => Live \subseteq Reach(CriticalSet)

\* C3 as amended - soundness over the blocks that end with a terminator.
SoundnessTerminatedBlocks ==
    pc = "done" =>
       \A b \in BlocksIn(basic_blocks) :
          IsTerminated(b) => Range(insts[b]) \subseteq Reach(CriticalSet)

\* run has ended, it removed something, and a terminated block keeps an add
\* or phi
SoundnessWitness ==
    /\ pc = "done"
    /\ ins_count > 0
    /\ \E b \in BlocksIn(basic_blocks) :
          IsTerminated(b) /\ \E i \in Range(insts[b]) : kind[i] \in {"add", "phi"}

\* C4 - a call to a declaration is never removed: it stays in its block, with
\* its operands, in every state of run.
DeclarationCallKept ==
    \A i \in Instrs :
       (kind[i] = "call" /\ IsDeclaration(operands0[i][1])) =>
          /\ i \in Range(insts[Block0Of(i)])
          /\ Block0Of(i) \in BlocksIn(basic_blocks)
          /\ operands[i] = operands0[i]

\* run has ended over an unused call to a declaration the oracle calls pure,
\* in a block that ends with a terminator
DeclarationCallWitness ==
    /\ pc = "done"
    /\ pure["ext"]
    /\ \E i \in Live : /\ kind[i] = "call" /\ operands[i] = <<"ext">>
                       /\ use_list[Name(i)] = {}
                       /\ IsTerminated(ParentOf(i))

\* C5 - a call whose operand 0 is no function is never removed by the pass,
\* as it would be if is_critical classified it as critical like a call to a
\* declaration: it is in a block in every state of run.
UnresolvedCallKept ==
    \A i \in Instrs :
       (kind[i] = "call" /\ ~IsFunction(operands0[i][1])) => i \in Live

\* C6 - idempotence: a second run on the output of the first removes no
\* instruction, deletes no block, and executes its loop body exactly once.
Idempotence ==
    runNo > 1 =>
       /\ insts = insts0
       /\ basic_blocks = blocks0
       /\ iter <= 1
       /\ pc = "done" => iter = 1

\* the second run has ended, after a first run that removed instructions
IdempotenceWitness ==
    /\ runNo = 2
    /\ pc = "done"
    /\ ins_count > 0

\* C7 - termination: the loop of run is never stuck, every loop body after
\* which the loop goes on has removed an instruction or a block (so the number
\* of loop bodies is bounded by the size of the module), and the loop ends
\* after the first loop body that reports no change.
RunTerminates ==
    /\ pc = "do" => ENABLED DoBegin
    /\ AtWhile => /\ changed <=> Size < sizeAtDo
                  /\ iter - 1 <= InitialSize - sizeAtDo
    /\ pc = "done" => ~changed /\ Size = sizeAtDo

\* run has ended after three loop bodies
TerminationWitness ==
    pc = "done" /\ iter >= 3

\* rules 1-4 and 5 of the critical predicate all fail for i
Removable(i) ==
    /\ use_list[Name(i)] = {}
    /\ kind[i] \notin {"ret", "br", "store"}
    /\ ~(/\ kind[i] = "call"
         /\ IsFunction(operands[i][1])
         /\ (IsDeclaration(operands[i][1]) \/ ~pure[operands[i][1]]))

\* C8 - removal at the fixpoint: when run has ended, no block that ends with
\* a terminator holds a non-terminator instruction that is unused, is no
\* store, and is no call to a declaration or to a function not reported pure.
RemovalAtFixpoint ==
    pc = "done" =>
       \A b \in BlocksIn(basic_blocks) :
          IsTerminated(b) =>
             \A i \in Range(insts[b]) : ~IsTerminator(i) => ~Removable(i)

\* run has ended and removed an unused call to the pure defined function g
RemovalWitness ==
    /\ pc = "done"
    /\ pure["g"]
    /\ \E i \in Instrs \ Live : kind[i] = "call" /\ operands0[i] = <<"g">>

\* C9 - sweeper contract: a sweep step removes exactly the non-terminator,
\* unmarked instructions of the function that sit in a terminated block, its
\* batch is that set as it was before the step, and it reports a change if
\* and only if that set is non-empty.
SweeperContract ==
    [][pc = "sweep" =>
         LET expected == {i \in Range(FuncInstrs(Funcs[fi])) :
                             /\ ~IsTerminator(i)
                             /\ i \notin marked
                             /\ IsTerminated(ParentOf(i))}
         IN /\ Live' \subseteq Live
            /\ Live \ Live' = expected
            /\ Range(wait_del') = expected
            /\ Len(wait_del') = Cardinality(expected)
            /\ changed' <=> (changed \/ expected # {})]_vars

\* a sweep has just removed a batch while an unmarked instruction of the same
\* function stays in a block without terminator
SweeperWitness ==
    /\ pc = "prune"
    /\ wait_del # <<>>
    /\ \E b \in Range(basic_blocks[Funcs[fi]]) :
          /\ insts[b] # <<>> /\ ~IsTerminated(b)
          /\ \E i \in Range(insts[b]) : i \notin marked

\* C10 - malformed blocks are left untouched: a non-empty block that does not
\* end with a terminator keeps its instruction list and stays in its function.
MalformedUntouched ==
    \A b \in Blocks :
       WasMalformed(b) => insts[b] = insts0[b] /\ b \in BlocksIn(basic_blocks)

\* run has ended, it removed something, and a malformed block without
\* predecessors that is not the entry holds an instruction that is not critical
MalformedWitness ==
    /\ pc = "done"
    /\ ins_count > 0
    /\ WasMalformed("B2") /\ preds["B2"] = {}
    /\ \E i \in Range(insts["B2"]) : ~IsCritical(i)

\* C11 - block pruner: a clear_basic_blocks step deletes exactly the blocks of
\* the function that have no predecessor, are not its entry block and are
\* empty, leaves every other function alone, and reports a change if and only
\* if it deleted a block.
BlockPrunerContract ==
    [][pc = "prune" =>
         LET f == Funcs[fi]
             gone == Range(basic_blocks[f]) \ Range(basic_blocks'[f])
         IN /\ Range(basic_blocks'[f]) \subseteq Range(basic_blocks[f])
            /\ gone = {b \in Range(basic_blocks[f]) :
                          /\ preds[b] = {}
                          /\ b # Head(basic_blocks[f])
                          /\ insts[b] = <<>>}
            /\ \A h \in FuncSet \ {f} : basic_blocks'[h] = basic_blocks[h]
            /\ changed' <=> (changed \/ gone # {})]_vars

\* a prune step has just deleted the empty block B2 of main, after a sweep
\* that removed nothing, while the entry block B1 is empty too and stays
BlockPrunerWitness ==
    /\ pc = "for" /\ fi = 2 /\ iter = 1
    /\ wait_del = <<>>
    /\ changed
    /\ basic_blocks["main"] = <<"B1">>
    /\ insts["B1"] = <<>>

\* a prune step has just kept the empty block B2, which has a predecessor
BlockPrunerKeptWitness ==
    /\ pc = "for" /\ fi = 2
    /\ "B2" \in Range(basic_blocks["main"])
    /\ insts["B2"] = <<>>
    /\ preds["B2"] # {}

\* the instructions that used t, and the function each was in, before the
\* first call of sweep_globally
Users0(t) == {i \in DOMAIN operands0 : t \in Range(operands0[i])}
Owner0(i) == CHOOSE f \in DOMAIN blocks0 :
                \E k \in 1..Len(blocks0[f]) : i \in Range(insts0[blocks0[f][k]])
\* the functions and globals that k single-hop collections remove
RECURSIVE Gone(_)
Gone(k) ==
    IF k = 0 THEN {}
    ELSE LET g == Gone(k - 1)
         IN g \cup {t \in GValues \ {"main"} : \A i \in Users0(t) : Owner0(i) \in g}

\* C12 - global collector removal set: a call of sweep_globally removes
\* exactly the functions with an empty use-list that are not named main and
\* exactly the globals with an empty use-list; main and everything that has a
\* use stay, in their order.
GlobalCollectorContract ==
    [][pc = "global" =>
         /\ functions' =
               SelectSeq(functions, LAMBDA f : ~(use_list[f] = {} /\ f # "main"))
         /\ global_variable' =
               SelectSeq(global_variable, LAMBDA g : use_list[g] # {})
         /\ "main" \in Range(functions')]_vars

\* one call has removed a helper and a global and kept a helper and a global,
\* and main, which nobody uses, is still there
GlobalCollectorWitness ==
    /\ pc = "global" /\ sweeps = 1
    /\ use_list["main"] = {} /\ "main" \in Range(functions)
    /\ Len(functions) = Len(GFuncs) - 1
    /\ Len(global_variable) = 1

\* C13 - single-hop collection: after k calls of sweep_globally the module
\* holds exactly the functions and globals that are not removed within k
\* hops, a hop removing what is unused once the functions removed by the
\* earlier hops are gone: what is used only from a function removed by a call
\* survives that call and is removed by the next.
SingleHopCollection ==
    pc = "global" =>
       Range(functions) \cup Range(global_variable) = GValues \ Gone(sweeps)

\* two calls were made, and the second removed a function that the first had
\* to leave because a function removed by the first called it
SingleHopWitness ==
    /\ pc = "global" /\ sweeps = 2
    /\ \E f \in GFuncSet : f \in Gone(2) \ Gone(1)

\* C14 - marker result: mark(func) ends, and what it has marked is exactly
\* what is reachable through operand edges from the instructions of func that
\* satisfy the critical predicate, with cycles through phi instructions too;
\* only instructions of func are marked.
MarkerClosure ==
    pc = "worklist" =>
       LET body == Range(FuncInstrs(Funcs[fi]))
       IN /\ marked = Reach({i \in body : IsCritical(i)})
          /\ marked \subseteq body

\* the worklist marker has marked a phi that is not critical, on an operand
\* cycle: the phi is an operand of its own operand
MarkerClosureWitness ==
    /\ pc = "worklist"
    /\ \E i \in marked :
          /\ kind[i] = "phi"
          /\ ~IsCritical(i)
          /\ i \in OperandInstrs(AsInstr(operands[i][1]))

\* C16 - the two markers agree: the recursive marker applied to every critical
\* instruction of a function, from an empty marked set, marks the same
\* instructions as the worklist marker.
MarkersAgree ==
    pc = "recursive" => marked = MarkFunc(Funcs[fi])

\* the recursive marker has gone through an operand edge: it has marked an
\* instruction that is not critical
MarkersAgreeWitness ==
    /\ pc = "recursive"
    /\ Cardinality(marked) >= 2
    /\ \E i \in marked : ~IsCritical(i)

\* C15 - erased-instruction count: in a run that starts with the counter at
\* zero, after every sweep and when the run has ended, ins_count is the number
\* of instructions that were in the blocks of the module before the run minus
\* the number that are in them now.
ErasedCount ==
    pc \in {"prune", "done"} =>
       ins_count = Cardinality(LiveIn(blocks0, insts0)) - Cardinality(Live)

\* run has ended after removing instructions in more than one loop body
ErasedCountWitness ==
    /\ pc = "done"
    /\ iter >= 3
    /\ ins_count >= 2

\* C18 - with consistent operand lists and use-lists, what mark(func) has
\* marked is exactly the set of instructions of func that satisfy the critical
\* predicate, and every instruction operand of an instruction of func has a
\* non-empty use-list, so that it is a seed itself.
MarkedIsCriticalSet ==
    pc = "sweep" =>
       LET body == Range(FuncInstrs(Funcs[fi]))
       IN /\ marked = {i \in body : IsCritical(i)}
          /\ \A i \in body : \A j \in OperandInstrs(i) : use_list[Name(j)] # {}

\* mark has marked an add that is critical only because it is used, together
\* with its user, and has left another instruction of the function unmarked
MarkedIsCriticalWitness ==
    /\ pc = "sweep"
    /\ \E i \in marked : /\ kind[i] = "add"
                         /\ \E u \in marked : i \in OperandInstrs(u)
    /\ Range(FuncInstrs(Funcs[fi])) \ marked # {}

\* a phi and the add after it that were each other's operand before the pass
InCycle0(i) ==
    /\ i < NumInstr
    /\ kind[i] = "phi"
    /\ operands0[i][1] = Name(i + 1)
    /\ Name(i) \in Range(operands0[i + 1])

\* C19 - cyclic groups stay: a phi and an add that use each other are never
\* removed, whether or not anything critical depends on them: in every state
\* of run both are in their block with their operands and a non-empty
\* use-list, and whenever their function has been marked both are marked.
CycleKept ==
    \A i \in Instrs :
       InCycle0(i) =>
          /\ {i, i + 1} \subseteq Live
          /\ operands[i] = operands0[i] /\ operands[i + 1] = operands0[i + 1]
          /\ use_list[Name(i)] # {} /\ use_list[Name(i + 1)] # {}
          /\ (pc = "sweep" /\ i \in Range(FuncInstrs(Funcs[fi])))
                => {i, i + 1} \subseteq marked

\* run has ended over a block that ends with a terminator and holds a phi and
\* an add that only each other uses
CycleKeptWitness ==
    /\ pc = "done"
    /\ \E i \in Instrs :
          /\ InCycle0(i)
          /\ IsTerminated(ParentOf(i))
          /\ use_list[Name(i)] = {i + 1}
          /\ use_list[Name(i + 1)] = {i}

\* C20 - blocks under the pass: no step of run empties a block that holds an
\* instruction or changes a predecessor set; a step that deletes blocks is in
\* the first loop body of the run and deletes only blocks that were empty,
\* without predecessor and not the entry block of their function before the
\* run; after the first loop body clear_basic_blocks reports no change.
BlocksOnlyPrunedAtFirst ==
    [][/\ preds' = preds
       /\ \A b \in Blocks : insts[b] # <<>> => insts'[b] # <<>>
       /\ \A f \in FuncSet :
             basic_blocks'[f] # basic_blocks[f] =>
                /\ iter = 1
                /\ \A b \in Range(basic_blocks[f]) \ Range(basic_blocks'[f]) :
                      /\ insts0[b] = <<>>
                      /\ preds[b] = {}
                      /\ b # Head(blocks0[f])
                      /\ b \in Range(blocks0[f])
       /\ (pc = "prune" /\ iter > 1) => (changed' <=> changed)]_vars

\* the second loop body of a run has passed clear_basic_blocks for main, whose
\* block B2 the first loop body deleted after a sweep that removed something
BlocksOnlyPrunedWitness ==
    /\ pc = "for" /\ fi = 2 /\ iter = 2
    /\ ins_count > 0
    /\ blocks0["main"] = <<"B1", "B2">>
    /\ basic_blocks["main"] = <<"B1">>

\* rules 1-4 of the critical predicate hold for i
Strong(i) ==
    \/ kind[i] \in {"ret", "br", "store"}
    \/ /\ kind[i] = "call"
       /\ IsFunction(operands0[i][1])
       /\ (IsDeclaration(operands0[i][1]) \/ ~pure[operands0[i][1]])
\* the instructions of f before the run
Body0(f) == Range(InstrSeqOf(blocks0[f], insts0))
\* before the run every block of f that held an instruction ended with a
\* terminator, and no instruction of f was on an operand cycle
Eligible0(f) ==
    /\ \A b \in Range(blocks0[f]) : insts0[b] = <<>> \/ WasTerminated(b)
    /\ \A i \in Body0(f) : ~InCycle0(i)
\* the length of the longest chain of users that starts at i, i included,
\* before the run (for an instruction of a function without operand cycle)
RECURSIVE Depth0(_)
Depth0(i) ==
    LET users == Users0(Name(i))
    IN IF users = {} THEN 1
       ELSE 1 + (CHOOSE d \in {Depth0(u) : u \in users} :
                    \A e \in {Depth0(u) : u \in users} : e <= d)

\* C17 - dead chains go by re-marking: in a function whose blocks end with a
\* terminator and whose operand relation has no cycle, at the end of loop body
\* n of run an instruction is still there if and only if it is made critical
\* by rules 1-4, or is reachable through operand edges from such an
\* instruction, or heads a chain of more than n users (a dead chain loses one
\* instruction per loop body); when run has ended only the first two kinds are
\* left.
DeadChainsRemoved ==
    (AtWhile \/ pc = "done") =>
       \A f \in FuncSet :
          Eligible0(f) =>
             LET kept == Reach({i \in Body0(f) : Strong(i)})
             IN /\ \A i \in Body0(f) :
                      i \in Live <=> (i \in kept \/ Depth0(i) > iter)
                /\ pc = "done" => Range(FuncInstrs(f)) \subseteq kept

\* run has ended after three loop bodies that took a chain of two dead
\* instructions, the second using the first, out of such a function
DeadChainsWitness ==
    /\ pc = "done"
    /\ iter = 3
    /\ \E i \in Instrs \ Live :
          /\ i < NumInstr
          /\ i + 1 \notin Live
          /\ Name(i) \in Range(operands0[i + 1])
          /\ \E f \in FuncSet : i \in Body0(f) /\ Eligible0(f)
====
